---- MODULE Spec2Model ----
(***************************************************************************)
(* Model of the Stellar custody multi-sig contract                         *)
(* (contracts/custody/src/lib.rs).  The contract's instance storage is one *)
(* record, `storage`; every public entry point is an operator that threads *)
(* a storage value through the reads, checks and writes of the handler in  *)
(* program order and returns the outcome (value or panic) together with    *)
(* the storage as it stood when the handler stopped.  The host commits the *)
(* storage of a call that returned and discards that of a call that        *)
(* panicked.                                                               *)
(***************************************************************************)
EXTENDS Integers, Sequences, FiniteSets, TLC

VARIABLES
    storage,      \* env.storage().instance(): every DataKey of the contract
    timestamp,    \* env.ledger().timestamp()
    executedLog,  \* per transaction id, how many "executed successfully" logs
    last          \* the last call: operation, arguments, outcome

vars == <<storage, timestamp, executedLog, last>>

----------------------------------------------------------------------------
(* Bounds of the model *)

MaxTx == 2        \* create_transaction is not called once the counter is here
MaxAmount == 2    \* amounts offered to create_transaction are 0..MaxAmount
MaxBalance == 2   \* the balance a wallet is funded with

(* Program constants *)

SecondsPerDay == 86400
DaysPerMonth == 30
GuardianSlots == 3
PercentTotal == 100

----------------------------------------------------------------------------
(* Option<T> and Map<K, V> of the SDK *)

None == <<>>
Some(v) == <<v>>
is_some(o) == o # <<>>
unwrap(o) == o[1]
unwrap_or(o, d) == IF o = <<>> THEN d ELSE o[1]

EmptyMap == [k \in {} |-> {}]
MapHas(m, k) == k \in DOMAIN m
MapGet(m, k) == IF k \in DOMAIN m THEN Some(m[k]) ELSE None
MapSet(m, k, v) == [x \in (DOMAIN m) \cup {k} |-> IF x = k THEN v ELSE m[x]]

\* Vec::contains
contains(vec, x) == \E i \in 1..Len(vec) : vec[i] = x

----------------------------------------------------------------------------
(* Addresses and the inputs offered to the entry points *)

GuardianAddrs == {"g1", "g2", "g3"}
WalletAddrs == {"w1", "w2"}
Stranger == "x"
Address == GuardianAddrs \cup WalletAddrs \cup {Stranger}

Guardian(address, is_active) ==
    [address |-> address, role |-> "role", is_active |-> is_active,
     daily_limit |-> 100000, monthly_limit |-> 1000000,
     approval_count |-> 0, last_approval |-> 0]

SystemLimits(daily, monthly, threshold, required, cold, hot) ==
    [daily_limit |-> daily, monthly_limit |-> monthly,
     high_value_threshold |-> threshold, required_approvals |-> required,
     cold_wallet_percentage |-> cold, hot_wallet_percentage |-> hot]

WalletInfo(address, wallet_type) ==
    [address |-> address, wallet_type |-> wallet_type, balance |-> 0,
     reserved_balance |-> 0, is_active |-> TRUE]

----------------------------------------------------------------------------
(* Outcome of a handler: err = "none" when it returned, the error kind of  *)
(* the panic otherwise; st is the storage when the handler stopped; events *)
(* are the ids logged as executed.                                         *)

Ok(st, ret, events) == [err |-> "none", st |-> st, ret |-> ret, events |-> events]
Panic(st, e) == [err |-> e, st |-> st, ret |-> None, events |-> <<>>]

EmptyStorage ==
    [Initialized |-> FALSE,
     SystemLimits |-> None,
     TransactionCounter |-> None,
     Guardians |-> None,
     GuardianCount |-> None,
     HotWallet |-> None,
     ColdWallet |-> None,
     WalletInfo |-> EmptyMap,
     Transaction |-> EmptyMap,
     DailySpent |-> EmptyMap,
     MonthlySpent |-> EmptyMap,
     EmergencyMode |-> None,
     EmergencyInitiator |-> None]

----------------------------------------------------------------------------
(* Internal functions.  A check yields "none" when it passes and the error *)
(* kind of its panic otherwise.                                            *)

\* panic!("Contract not initialized")
check_initialized(st) ==
    IF ~st.Initialized THEN "NotInitialized" ELSE "none"

\* check_emergency_mode with the check left out
check_emergency_mode_skipped(st) == "none"

\* panic!("Emergency mode active")
check_emergency_mode(st) ==
    LET emergency_mode == unwrap_or(st.EmergencyMode, FALSE)
    IN  IF emergency_mode THEN "EmergencyActive" ELSE "none"

\* check_spending_limits with >= where the code has >
check_spending_limits_off_by_one(st, amount, now) ==
    LET system_limits == unwrap(st.SystemLimits)
        today == now \div SecondsPerDay
        daily_spent == unwrap_or(MapGet(st.DailySpent, today), 0)
        current_month == today \div DaysPerMonth
        monthly_spent == unwrap_or(MapGet(st.MonthlySpent, current_month), 0)
    IN  IF daily_spent + amount >= system_limits.daily_limit
        THEN "LimitExceeded"
        ELSE IF monthly_spent + amount >= system_limits.monthly_limit
             THEN "LimitExceeded"
             ELSE "none"

\* panic!("Exceeds daily limit") / panic!("Exceeds monthly limit")
check_spending_limits(st, amount, now) ==
    LET system_limits == unwrap(st.SystemLimits)
        today == now \div SecondsPerDay
        daily_spent == unwrap_or(MapGet(st.DailySpent, today), 0)
        current_month == today \div DaysPerMonth
        monthly_spent == unwrap_or(MapGet(st.MonthlySpent, current_month), 0)
    IN  IF daily_spent + amount > system_limits.daily_limit
        THEN "LimitExceeded"
        ELSE IF monthly_spent + amount > system_limits.monthly_limit
             THEN "LimitExceeded"
             ELSE "none"

update_spending_tracking(st, amount, now) ==
    LET today == now \div SecondsPerDay
        current_month == today \div DaysPerMonth
        daily_spent == unwrap_or(MapGet(st.DailySpent, today), 0)
        st1 == [st EXCEPT !.DailySpent = MapSet(@, today, daily_spent + amount)]
        monthly_spent == unwrap_or(MapGet(st1.MonthlySpent, current_month), 0)
    IN  [st1 EXCEPT !.MonthlySpent =
                        MapSet(@, current_month, monthly_spent + amount)]

\* execute_transaction_internal leaving reserved_balance as it is
execute_transaction_internal_keeps_reserved(st, tx_id, now) ==
    IF ~MapHas(st.Transaction, tx_id) THEN Panic(st, "TransactionNotFound")
    ELSE
    LET transaction == st.Transaction[tx_id]
        from_wallet_key == transaction.from_wallet
    IN  IF ~MapHas(st.WalletInfo, from_wallet_key) THEN Panic(st, "WalletNotFound")
        ELSE
        LET from_wallet ==
                [st.WalletInfo[from_wallet_key] EXCEPT
                    !.balance = @ - transaction.amount]
            executed ==
                [transaction EXCEPT !.status = "Executed",
                                    !.executed_at = Some(now)]
            st1 == update_spending_tracking(st, transaction.amount, now)
            st2 == [st1 EXCEPT !.WalletInfo = MapSet(@, from_wallet_key, from_wallet)]
            st3 == [st2 EXCEPT !.Transaction = MapSet(@, tx_id, executed)]
        IN  Ok(st3, None, <<tx_id>>)

\* execute_transaction_internal testing the balance again before the transfer
execute_transaction_internal_rechecks_balance(st, tx_id, now) ==
    IF ~MapHas(st.Transaction, tx_id) THEN Panic(st, "TransactionNotFound")
    ELSE
    LET transaction == st.Transaction[tx_id]
        from_wallet_key == transaction.from_wallet
    IN  IF ~MapHas(st.WalletInfo, from_wallet_key) THEN Panic(st, "WalletNotFound")
        ELSE IF st.WalletInfo[from_wallet_key].balance < transaction.amount
             THEN Panic(st, "InsufficientFunds")
        ELSE
        LET from_wallet ==
                [st.WalletInfo[from_wallet_key] EXCEPT
                    !.balance = @ - transaction.amount,
                    !.reserved_balance = @ - transaction.amount]
            executed ==
                [transaction EXCEPT !.status = "Executed",
                                    !.executed_at = Some(now)]
            st1 == update_spending_tracking(st, transaction.amount, now)
            st2 == [st1 EXCEPT !.WalletInfo = MapSet(@, from_wallet_key, from_wallet)]
            st3 == [st2 EXCEPT !.Transaction = MapSet(@, tx_id, executed)]
        IN  Ok(st3, None, <<tx_id>>)

execute_transaction_internal(st, tx_id, now) ==
    IF ~MapHas(st.Transaction, tx_id) THEN Panic(st, "TransactionNotFound")
    ELSE
    LET transaction == st.Transaction[tx_id]
        from_wallet_key == transaction.from_wallet
    IN  IF ~MapHas(st.WalletInfo, from_wallet_key) THEN Panic(st, "WalletNotFound")
        ELSE
        LET from_wallet ==
                [st.WalletInfo[from_wallet_key] EXCEPT
                    !.balance = @ - transaction.amount,
                    !.reserved_balance = @ - transaction.amount]
            executed ==
                [transaction EXCEPT !.status = "Executed",
                                    !.executed_at = Some(now)]
            st1 == update_spending_tracking(st, transaction.amount, now)
            st2 == [st1 EXCEPT !.WalletInfo = MapSet(@, from_wallet_key, from_wallet)]
            st3 == [st2 EXCEPT !.Transaction = MapSet(@, tx_id, executed)]
        IN  Ok(st3, None, <<tx_id>>)

----------------------------------------------------------------------------
(* Public entry points *)

\* for guardian in guardians.iter() { guardians_map.set(address, guardian) }
RECURSIVE store_guardians(_, _, _)
store_guardians(guardians_map, guardians, i) ==
    IF i > Len(guardians) THEN guardians_map
    ELSE store_guardians(MapSet(guardians_map, guardians[i].address, guardians[i]),
                         guardians, i + 1)

\* initialize validating its arguments before it looks at Initialized
initialize_validate_first(st, guardians, hot_wallet, cold_wallet, system_limits) ==
    IF Len(guardians) # GuardianSlots THEN Panic(st, "InvalidConfiguration")
    ELSE IF system_limits.cold_wallet_percentage
              + system_limits.hot_wallet_percentage # PercentTotal
         THEN Panic(st, "InvalidConfiguration")
    ELSE IF st.Initialized THEN Panic(st, "AlreadyInitialized")
    ELSE
    LET guardians_map == store_guardians(EmptyMap, guardians, 1)
        st1 == [st EXCEPT !.Guardians = Some(guardians_map),
                          !.GuardianCount = Some(GuardianSlots),
                          !.HotWallet = Some(hot_wallet),
                          !.ColdWallet = Some(cold_wallet),
                          !.SystemLimits = Some(system_limits),
                          !.TransactionCounter = Some(0),
                          !.EmergencyMode = Some(FALSE),
                          !.Initialized = TRUE]
        st2 == [st1 EXCEPT !.WalletInfo =
                   MapSet(@, hot_wallet, WalletInfo(hot_wallet, "Hot"))]
        st3 == [st2 EXCEPT !.WalletInfo =
                   MapSet(@, cold_wallet, WalletInfo(cold_wallet, "Cold"))]
    IN  Ok(st3, None, <<>>)

initialize(st, guardians, hot_wallet, cold_wallet, system_limits) ==
    IF st.Initialized THEN Panic(st, "AlreadyInitialized")
    ELSE IF Len(guardians) # GuardianSlots THEN Panic(st, "InvalidConfiguration")
    ELSE IF system_limits.cold_wallet_percentage
              + system_limits.hot_wallet_percentage # PercentTotal
         THEN Panic(st, "InvalidConfiguration")
    ELSE
    LET guardians_map == store_guardians(EmptyMap, guardians, 1)
        st1 == [st EXCEPT !.Guardians = Some(guardians_map),
                          !.GuardianCount = Some(GuardianSlots),
                          !.HotWallet = Some(hot_wallet),
                          !.ColdWallet = Some(cold_wallet),
                          !.SystemLimits = Some(system_limits),
                          !.TransactionCounter = Some(0),
                          !.EmergencyMode = Some(FALSE),
                          !.Initialized = TRUE]
        hot_wallet_info == WalletInfo(hot_wallet, "Hot")
        cold_wallet_info == WalletInfo(cold_wallet, "Cold")
        st2 == [st1 EXCEPT !.WalletInfo = MapSet(@, hot_wallet, hot_wallet_info)]
        st3 == [st2 EXCEPT !.WalletInfo = MapSet(@, cold_wallet, cold_wallet_info)]
    IN  Ok(st3, None, <<>>)

\* requires_approval with >= where the code has >
requires_approval_at_threshold(amount, system_limits, wallet_info) ==
    amount >= system_limits.high_value_threshold \/ wallet_info.wallet_type = "Cold"

\* amount > high_value_threshold || matches!(wallet_type, WalletType::Cold)
requires_approval(amount, system_limits, wallet_info) ==
    amount > system_limits.high_value_threshold \/ wallet_info.wallet_type = "Cold"

\* create_transaction storing the counter for approval-required transactions only
create_transaction_counter_on_pending(st, from_wallet, to_address, amount, now) ==
    IF check_initialized(st) # "none" THEN Panic(st, check_initialized(st))
    ELSE IF check_emergency_mode(st) # "none" THEN Panic(st, check_emergency_mode(st))
    ELSE IF amount <= 0 THEN Panic(st, "InvalidAmount")
    ELSE IF ~MapHas(st.WalletInfo, from_wallet) THEN Panic(st, "WalletNotFound")
    ELSE
    LET wallet_info == st.WalletInfo[from_wallet]
    IN  IF wallet_info.balance < amount THEN Panic(st, "InsufficientFunds")
        ELSE
        LET system_limits == unwrap(st.SystemLimits)
            needs == requires_approval(amount, system_limits, wallet_info)
        IN  IF needs /\ check_spending_limits(st, amount, now) # "none"
            THEN Panic(st, check_spending_limits(st, amount, now))
            ELSE
            LET counter == unwrap_or(st.TransactionCounter, 0)
                tx_id == counter + 1
                transaction ==
                    [id |-> tx_id,
                     from_wallet |-> from_wallet,
                     to_address |-> to_address,
                     amount |-> amount,
                     memo |-> "memo",
                     tx_type |-> "Payment",
                     status |-> IF needs THEN "AwaitingApproval" ELSE "Pending",
                     approvals |-> <<>>,
                     created_at |-> now,
                     executed_at |-> None,
                     requires_approval |-> needs]
                reserved == [wallet_info EXCEPT !.reserved_balance = @ + amount]
                st1 == [st EXCEPT !.WalletInfo = MapSet(@, from_wallet, reserved)]
                st2 == [st1 EXCEPT !.Transaction = MapSet(@, tx_id, transaction)]
                st3 == IF needs THEN [st2 EXCEPT !.TransactionCounter = Some(tx_id)]
                       ELSE st2
            IN  IF ~needs
                THEN LET e == execute_transaction_internal(st3, tx_id, now)
                     IN  IF e.err # "none" THEN e ELSE Ok(e.st, tx_id, e.events)
                ELSE Ok(st3, tx_id, <<>>)

\* create_transaction checking the spending limits on both paths
create_transaction_limits_always(st, from_wallet, to_address, amount, now) ==
    IF check_initialized(st) # "none" THEN Panic(st, check_initialized(st))
    ELSE IF check_emergency_mode(st) # "none" THEN Panic(st, check_emergency_mode(st))
    ELSE IF amount <= 0 THEN Panic(st, "InvalidAmount")
    ELSE IF ~MapHas(st.WalletInfo, from_wallet) THEN Panic(st, "WalletNotFound")
    ELSE
    LET wallet_info == st.WalletInfo[from_wallet]
    IN  IF wallet_info.balance < amount THEN Panic(st, "InsufficientFunds")
        ELSE
        LET system_limits == unwrap(st.SystemLimits)
            needs == requires_approval(amount, system_limits, wallet_info)
        IN  IF check_spending_limits(st, amount, now) # "none"
            THEN Panic(st, check_spending_limits(st, amount, now))
            ELSE
            LET counter == unwrap_or(st.TransactionCounter, 0)
                tx_id == counter + 1
                transaction ==
                    [id |-> tx_id,
                     from_wallet |-> from_wallet,
                     to_address |-> to_address,
                     amount |-> amount,
                     memo |-> "memo",
                     tx_type |-> "Payment",
                     status |-> IF needs THEN "AwaitingApproval" ELSE "Pending",
                     approvals |-> <<>>,
                     created_at |-> now,
                     executed_at |-> None,
                     requires_approval |-> needs]
                reserved == [wallet_info EXCEPT !.reserved_balance = @ + amount]
                st1 == [st EXCEPT !.WalletInfo = MapSet(@, from_wallet, reserved)]
                st2 == [st1 EXCEPT !.Transaction = MapSet(@, tx_id, transaction)]
                st3 == [st2 EXCEPT !.TransactionCounter = Some(tx_id)]
            IN  IF ~needs
                THEN LET e == execute_transaction_internal(st3, tx_id, now)
                     IN  IF e.err # "none" THEN e ELSE Ok(e.st, tx_id, e.events)
                ELSE Ok(st3, tx_id, <<>>)

create_transaction(st, from_wallet, to_address, amount, now) ==
    IF check_initialized(st) # "none" THEN Panic(st, check_initialized(st))
    ELSE IF check_emergency_mode(st) # "none" THEN Panic(st, check_emergency_mode(st))
    ELSE IF amount <= 0 THEN Panic(st, "InvalidAmount")
    ELSE IF ~MapHas(st.WalletInfo, from_wallet) THEN Panic(st, "WalletNotFound")
    ELSE
    LET wallet_info == st.WalletInfo[from_wallet]
    IN  IF wallet_info.balance < amount THEN Panic(st, "InsufficientFunds")
        ELSE
        LET system_limits == unwrap(st.SystemLimits)
            needs == requires_approval(amount, system_limits, wallet_info)
        IN  IF needs /\ check_spending_limits(st, amount, now) # "none"
            THEN Panic(st, check_spending_limits(st, amount, now))
            ELSE
            LET counter == unwrap_or(st.TransactionCounter, 0)
                tx_id == counter + 1
                transaction ==
                    [id |-> tx_id,
                     from_wallet |-> from_wallet,
                     to_address |-> to_address,
                     amount |-> amount,
                     memo |-> "memo",
                     tx_type |-> "Payment",
                     status |-> IF needs THEN "AwaitingApproval" ELSE "Pending",
                     approvals |-> <<>>,
                     created_at |-> now,
                     executed_at |-> None,
                     requires_approval |-> needs]
                reserved == [wallet_info EXCEPT !.reserved_balance = @ + amount]
                st1 == [st EXCEPT !.WalletInfo = MapSet(@, from_wallet, reserved)]
                st2 == [st1 EXCEPT !.Transaction = MapSet(@, tx_id, transaction)]
                st3 == [st2 EXCEPT !.TransactionCounter = Some(tx_id)]
            IN  IF ~needs
                THEN LET e == execute_transaction_internal(st3, tx_id, now)
                     IN  IF e.err # "none" THEN e ELSE Ok(e.st, tx_id, e.events)
                ELSE Ok(st3, tx_id, <<>>)

\* has_enough_approvals counting one approval too many
has_enough_approvals_one_short(transaction, system_limits) ==
    Len(transaction.approvals) + 1 >= system_limits.required_approvals

\* transaction.approvals.len() >= system_limits.required_approvals
has_enough_approvals(transaction, system_limits) ==
    Len(transaction.approvals) >= system_limits.required_approvals

\* already_approved with the duplicate check left out
already_approved_never(transaction, guardian) == FALSE

\* transaction.approvals.contains(&guardian)
already_approved(transaction, guardian) ==
    contains(transaction.approvals, guardian)

\* awaiting_approval with the status check left out
awaiting_approval_any(transaction) == TRUE

\* matches!(transaction.status, TxStatus::AwaitingApproval)
awaiting_approval(transaction) ==
    transaction.status = "AwaitingApproval"

\* approve_transaction testing the status before the duplicate approval
approve_transaction_status_first(st, auth, guardian, tx_id, now) ==
    IF ~auth THEN Panic(st, "Unauthorized")
    ELSE IF check_initialized(st) # "none" THEN Panic(st, check_initialized(st))
    ELSE IF check_emergency_mode(st) # "none" THEN Panic(st, check_emergency_mode(st))
    ELSE IF ~is_some(st.Guardians) THEN Panic(st, "NotInitialized")
    ELSE
    LET guardians == unwrap(st.Guardians)
    IN  IF ~MapHas(guardians, guardian) THEN Panic(st, "NotAGuardian")
        ELSE IF ~guardians[guardian].is_active THEN Panic(st, "GuardianInactive")
        ELSE IF ~MapHas(st.Transaction, tx_id) THEN Panic(st, "TransactionNotFound")
        ELSE IF ~awaiting_approval(st.Transaction[tx_id])
             THEN Panic(st, "InvalidTransactionState")
        ELSE IF already_approved(st.Transaction[tx_id], guardian)
             THEN Panic(st, "DuplicateApproval")
        ELSE
        LET approved == [st.Transaction[tx_id] EXCEPT
                            !.approvals = Append(@, guardian)]
            guardian_info == [guardians[guardian] EXCEPT
                                 !.approval_count = @ + 1,
                                 !.last_approval = now]
            system_limits == unwrap(st.SystemLimits)
            enough == has_enough_approvals(approved, system_limits)
            transaction == IF enough THEN [approved EXCEPT !.status = "Approved"]
                           ELSE approved
            e == IF enough THEN execute_transaction_internal(st, tx_id, now)
                 ELSE Ok(st, None, <<>>)
        IN  IF e.err # "none" THEN e
            ELSE
            LET st1 == [e.st EXCEPT !.Transaction = MapSet(@, tx_id, transaction)]
                updated_guardians == MapSet(guardians, guardian, guardian_info)
                st2 == [st1 EXCEPT !.Guardians = Some(updated_guardians)]
            IN  Ok(st2, enough, e.events)

\* approve_transaction storing the guardian statistics only below the quorum
approve_transaction_stats_below_quorum(st, auth, guardian, tx_id, now) ==
    IF ~auth THEN Panic(st, "Unauthorized")
    ELSE IF check_initialized(st) # "none" THEN Panic(st, check_initialized(st))
    ELSE IF check_emergency_mode(st) # "none" THEN Panic(st, check_emergency_mode(st))
    ELSE IF ~is_some(st.Guardians) THEN Panic(st, "NotInitialized")
    ELSE
    LET guardians == unwrap(st.Guardians)
    IN  IF ~MapHas(guardians, guardian) THEN Panic(st, "NotAGuardian")
        ELSE IF ~guardians[guardian].is_active THEN Panic(st, "GuardianInactive")
        ELSE IF ~MapHas(st.Transaction, tx_id) THEN Panic(st, "TransactionNotFound")
        ELSE IF already_approved(st.Transaction[tx_id], guardian)
             THEN Panic(st, "DuplicateApproval")
        ELSE IF ~awaiting_approval(st.Transaction[tx_id])
             THEN Panic(st, "InvalidTransactionState")
        ELSE
        LET approved == [st.Transaction[tx_id] EXCEPT
                            !.approvals = Append(@, guardian)]
            guardian_info == [guardians[guardian] EXCEPT
                                 !.approval_count = @ + 1,
                                 !.last_approval = now]
            system_limits == unwrap(st.SystemLimits)
            enough == has_enough_approvals(approved, system_limits)
            transaction == IF enough THEN [approved EXCEPT !.status = "Approved"]
                           ELSE approved
            e == IF enough THEN execute_transaction_internal(st, tx_id, now)
                 ELSE Ok(st, None, <<>>)
        IN  IF e.err # "none" THEN e
            ELSE
            LET st1 == [e.st EXCEPT !.Transaction = MapSet(@, tx_id, transaction)]
                updated_guardians == IF enough THEN guardians
                                     ELSE MapSet(guardians, guardian, guardian_info)
                st2 == [st1 EXCEPT !.Guardians = Some(updated_guardians)]
            IN  Ok(st2, enough, e.events)

approve_transaction(st, auth, guardian, tx_id, now) ==
    IF ~auth THEN Panic(st, "Unauthorized")
    ELSE IF check_initialized(st) # "none" THEN Panic(st, check_initialized(st))
    ELSE IF check_emergency_mode(st) # "none" THEN Panic(st, check_emergency_mode(st))
    ELSE IF ~is_some(st.Guardians) THEN Panic(st, "NotInitialized")
    ELSE
    LET guardians == unwrap(st.Guardians)
    IN  IF ~MapHas(guardians, guardian) THEN Panic(st, "NotAGuardian")
        ELSE IF ~guardians[guardian].is_active THEN Panic(st, "GuardianInactive")
        ELSE IF ~MapHas(st.Transaction, tx_id) THEN Panic(st, "TransactionNotFound")
        ELSE IF already_approved(st.Transaction[tx_id], guardian)
             THEN Panic(st, "DuplicateApproval")
        ELSE IF ~awaiting_approval(st.Transaction[tx_id])
             THEN Panic(st, "InvalidTransactionState")
        ELSE
        LET approved == [st.Transaction[tx_id] EXCEPT
                            !.approvals = Append(@, guardian)]
            guardian_info == [guardians[guardian] EXCEPT
                                 !.approval_count = @ + 1,
                                 !.last_approval = now]
            system_limits == unwrap(st.SystemLimits)
            enough == has_enough_approvals(approved, system_limits)
            transaction == IF enough THEN [approved EXCEPT !.status = "Approved"]
                           ELSE approved
            e == IF enough THEN execute_transaction_internal(st, tx_id, now)
                 ELSE Ok(st, None, <<>>)
        IN  IF e.err # "none" THEN e
            ELSE
            LET st1 == [e.st EXCEPT !.Transaction = MapSet(@, tx_id, transaction)]
                updated_guardians == MapSet(guardians, guardian, guardian_info)
                st2 == [st1 EXCEPT !.Guardians = Some(updated_guardians)]
            IN  Ok(st2, enough, e.events)

\* emergency_shutdown activating emergency mode before it verifies the guardian
emergency_shutdown_write_first(st, auth, guardian) ==
    IF ~auth THEN Panic(st, "Unauthorized")
    ELSE IF check_initialized(st) # "none" THEN Panic(st, check_initialized(st))
    ELSE IF ~is_some(st.Guardians) THEN Panic(st, "NotInitialized")
    ELSE
    LET guardians == unwrap(st.Guardians)
        st1 == [st EXCEPT !.EmergencyMode = Some(TRUE)]
        st2 == [st1 EXCEPT !.EmergencyInitiator = Some(guardian)]
    IN  IF ~MapHas(guardians, guardian) THEN Panic(st2, "NotAGuardian")
        ELSE IF ~guardians[guardian].is_active THEN Panic(st2, "GuardianInactive")
        ELSE Ok(st2, None, <<>>)

\* emergency_shutdown switching the flag instead of setting it
emergency_shutdown_toggle(st, auth, guardian) ==
    IF ~auth THEN Panic(st, "Unauthorized")
    ELSE IF check_initialized(st) # "none" THEN Panic(st, check_initialized(st))
    ELSE IF ~is_some(st.Guardians) THEN Panic(st, "NotInitialized")
    ELSE
    LET guardians == unwrap(st.Guardians)
    IN  IF ~MapHas(guardians, guardian) THEN Panic(st, "NotAGuardian")
        ELSE IF ~guardians[guardian].is_active THEN Panic(st, "GuardianInactive")
        ELSE
        LET st1 == [st EXCEPT !.EmergencyMode = Some(~unwrap_or(@, FALSE))]
            st2 == [st1 EXCEPT !.EmergencyInitiator = Some(guardian)]
        IN  Ok(st2, None, <<>>)

\* emergency_shutdown releasing what the wallets have reserved
emergency_shutdown_release(st, auth, guardian) ==
    IF ~auth THEN Panic(st, "Unauthorized")
    ELSE IF check_initialized(st) # "none" THEN Panic(st, check_initialized(st))
    ELSE IF ~is_some(st.Guardians) THEN Panic(st, "NotInitialized")
    ELSE
    LET guardians == unwrap(st.Guardians)
    IN  IF ~MapHas(guardians, guardian) THEN Panic(st, "NotAGuardian")
        ELSE IF ~guardians[guardian].is_active THEN Panic(st, "GuardianInactive")
        ELSE
        LET st1 == [st EXCEPT !.EmergencyMode = Some(TRUE)]
            st2 == [st1 EXCEPT !.EmergencyInitiator = Some(guardian)]
            st3 == [st2 EXCEPT !.WalletInfo =
                       [w \in DOMAIN @ |-> [@[w] EXCEPT !.reserved_balance = 0]]]
        IN  Ok(st3, None, <<>>)

emergency_shutdown(st, auth, guardian) ==
    IF ~auth THEN Panic(st, "Unauthorized")
    ELSE IF check_initialized(st) # "none" THEN Panic(st, check_initialized(st))
    ELSE IF ~is_some(st.Guardians) THEN Panic(st, "NotInitialized")
    ELSE
    LET guardians == unwrap(st.Guardians)
    IN  IF ~MapHas(guardians, guardian) THEN Panic(st, "NotAGuardian")
        ELSE IF ~guardians[guardian].is_active THEN Panic(st, "GuardianInactive")
        ELSE
        LET st1 == [st EXCEPT !.EmergencyMode = Some(TRUE)]
            st2 == [st1 EXCEPT !.EmergencyInitiator = Some(guardian)]
        IN  Ok(st2, None, <<>>)

(* Read-only queries *)

get_transaction(st, tx_id) == MapGet(st.Transaction, tx_id)

get_guardian(st, guardian_address) ==
    IF ~is_some(st.Guardians) THEN None
    ELSE MapGet(unwrap(st.Guardians), guardian_address)

get_wallet_balance(st, wallet_address) ==
    IF MapHas(st.WalletInfo, wallet_address)
    THEN Some(st.WalletInfo[wallet_address].balance)
    ELSE None

is_emergency_mode(st) == unwrap_or(st.EmergencyMode, FALSE)

get_transaction_counter(st) == unwrap_or(st.TransactionCounter, 0)

----------------------------------------------------------------------------
(* The inputs offered to initialize: a base configuration (three active    *)
(* guardians, distinct wallets, 2-of-3) and every configuration differing  *)
(* from it in one argument.                                                *)

AllActive == <<Guardian("g1", TRUE), Guardian("g2", TRUE), Guardian("g3", TRUE)>>
OneInactive == <<Guardian("g1", TRUE), Guardian("g2", TRUE), Guardian("g3", FALSE)>>
SharedAddress == <<Guardian("g1", TRUE), Guardian("g1", TRUE), Guardian("g2", TRUE)>>
TooFew == <<Guardian("g1", TRUE), Guardian("g2", TRUE)>>

BaseLimits == SystemLimits(2, 3, 1, 2, 95, 5)

LimitInputs ==
    {[BaseLimits EXCEPT !.required_approvals = r] : r \in 0..GuardianSlots}
    \cup {[BaseLimits EXCEPT !.hot_wallet_percentage = 10]}
    \cup {[BaseLimits EXCEPT !.monthly_limit = 2]}

InitInputs ==
    {[guardians |-> AllActive, hot_wallet |-> "w1", cold_wallet |-> "w2",
      system_limits |-> l] : l \in LimitInputs}
    \cup {[guardians |-> g, hot_wallet |-> "w1", cold_wallet |-> "w2",
           system_limits |-> BaseLimits] : g \in {OneInactive, SharedAddress, TooFew}}
    \cup {[guardians |-> AllActive, hot_wallet |-> "w1", cold_wallet |-> "w1",
           system_limits |-> BaseLimits]}

\* Ledger times offered: the first second of day 0 and of day 1
Times == {0, SecondsPerDay}

Amounts == 0..MaxAmount
TxIds == 1..MaxTx
Sources == WalletAddrs \cup {Stranger}
Callers == GuardianAddrs \cup {Stranger}
EmergencyCallers == {"g1", "g3", Stranger}

----------------------------------------------------------------------------
(* The state machine *)

RECURSIVE record_events(_, _, _)
record_events(log, events, i) ==
    IF i > Len(events) THEN log
    ELSE record_events(MapSet(log, events[i], unwrap_or(MapGet(log, events[i]), 0) + 1),
                       events, i + 1)

\* The host: a call that returned commits its storage and its events, a
\* call that panicked commits nothing.
Commit(r) ==
    /\ storage' = IF r.err = "none" THEN r.st ELSE storage
    /\ executedLog' = IF r.err = "none" THEN record_events(executedLog, r.events, 1)
                      ELSE executedLog

\* The last call that committed, with its arguments and, as ret, the
\* operation paired with the value it returned (a u64, a bool or nothing)
Called(op, args, r) ==
    last' = IF r.err = "none" THEN [op |-> op, args |-> args, ret |-> <<op, r.ret>>]
            ELSE last

Init ==
    /\ storage = EmptyStorage
    /\ timestamp = 0
    /\ executedLog = EmptyMap
    /\ last = [op |-> "none"]

Initialize ==
    \E in \in InitInputs :
        LET r == initialize(storage, in.guardians, in.hot_wallet, in.cold_wallet,
                            in.system_limits)
        IN  /\ Commit(r)
            /\ Called("initialize", in, r)
            /\ UNCHANGED timestamp

\* The funding of a wallet by a direct write of its WalletInfo (test_create_transaction)
FundWallet ==
    \E w \in WalletAddrs, b \in {MaxBalance} :
        /\ storage.Initialized
        /\ get_transaction_counter(storage) = 0
        /\ MapHas(storage.WalletInfo, w)
        /\ storage.WalletInfo[w].balance = 0
        /\ storage' = [storage EXCEPT !.WalletInfo =
                          MapSet(@, w, [storage.WalletInfo[w] EXCEPT
                                           !.balance = b, !.reserved_balance = 0])]
        /\ last' = [op |-> "fund"]
        /\ UNCHANGED <<timestamp, executedLog>>

CreateTransaction ==
    \E from_wallet \in Sources, amount \in Amounts :
        LET r == create_transaction(storage, from_wallet, Stranger, amount, timestamp)
        IN  /\ get_transaction_counter(storage) < MaxTx
            /\ Commit(r)
            /\ Called("create_transaction",
                      [from_wallet |-> from_wallet, amount |-> amount], r)
            /\ UNCHANGED timestamp

ApproveTransaction ==
    \E auth \in BOOLEAN, guardian \in Callers, tx_id \in TxIds :
        LET r == approve_transaction(storage, auth, guardian, tx_id, timestamp)
        IN  /\ Commit(r)
            /\ Called("approve_transaction",
                      [auth |-> auth, guardian |-> guardian, tx_id |-> tx_id], r)
            /\ UNCHANGED timestamp

EmergencyShutdown ==
    \E auth \in BOOLEAN, guardian \in EmergencyCallers :
        LET r == emergency_shutdown(storage, auth, guardian)
        IN  /\ Commit(r)
            /\ Called("emergency_shutdown",
                      [auth |-> auth, guardian |-> guardian], r)
            /\ UNCHANGED timestamp

\* The ledger closes: time moves forward
Tick ==
    \E t \in Times :
        /\ t > timestamp
        /\ timestamp' = t
        /\ last' = [op |-> "tick"]
        /\ UNCHANGED <<storage, executedLog>>

Next ==
    \/ Initialize
    \/ FundWallet
    \/ CreateTransaction
    \/ ApproveTransaction
    \/ EmergencyShutdown
    \/ Tick

Spec == Init /\ [][Next]_vars

----------------------------------------------------------------------------
(* Vocabulary of the properties *)

ToSet(vec) == {vec[i] : i \in 1..Len(vec)}

RECURSIVE SumOver(_, _)
SumOver(f, S) ==
    IF S = {} THEN 0
    ELSE LET x == CHOOSE y \in S : TRUE IN f[x] + SumOver(f, S \ {x})

Limits == unwrap(storage.SystemLimits)
Txs == DOMAIN storage.Transaction
Wallets == DOMAIN storage.WalletInfo
Registered == IF is_some(storage.Guardians) THEN DOMAIN unwrap(storage.Guardians) ELSE {}
ActiveGuardians == {g \in Registered : unwrap(storage.Guardians)[g].is_active}
ExecutedCount(t) == unwrap_or(MapGet(executedLog, t), 0)
Today == timestamp \div SecondsPerDay
ThisMonth == Today \div DaysPerMonth
SpentToday == unwrap_or(MapGet(storage.DailySpent, Today), 0)
SpentThisMonth == unwrap_or(MapGet(storage.MonthlySpent, ThisMonth), 0)

\* Every argument a caller can offer, the rejected ones included
AnyAmount == (-1)..(MaxAmount + 1)
AnyTxId == 1..(MaxTx + 1)

Approve(g, t) == approve_transaction(storage, TRUE, g, t, timestamp)
Create(w, a) == create_transaction(storage, w, Stranger, a, timestamp)

\* The funds and the spend buckets are the same in st as in storage
SameFunds(st) ==
    /\ st.WalletInfo = storage.WalletInfo
    /\ st.DailySpent = storage.DailySpent
    /\ st.MonthlySpent = storage.MonthlySpent

\* An approval-required transaction is settled only with a quorum of
\* distinct active guardians in its approvals
SettledWithQuorum ==
    \A t \in Txs :
        (storage.Transaction[t].requires_approval /\ ExecutedCount(t) > 0)
        => /\ Cardinality(ToSet(storage.Transaction[t].approvals))
                  >= Limits.required_approvals
           /\ ToSet(storage.Transaction[t].approvals) \subseteq ActiveGuardians

\* Creating an approval-required transaction leaves the balance alone
CreateKeepsBalance ==
    \A w \in Sources, a \in AnyAmount :
        LET r == Create(w, a)
        IN  (r.err = "none" /\ r.st.Transaction[r.ret].requires_approval)
            => /\ r.st.WalletInfo[w].balance = storage.WalletInfo[w].balance
               /\ r.events = <<>>

\* What a successful approval of t does when `quorum` is the number of
\* approvals that settles
ApprovalSettlesAt(quorum) ==
    \A g \in Callers, t \in Txs :
        LET r == Approve(g, t)
            tx == storage.Transaction[t]
            w == tx.from_wallet
        IN  (tx.requires_approval /\ r.err = "none")
            => IF Cardinality(ToSet(r.st.Transaction[t].approvals)) = quorum
               THEN /\ r.ret = TRUE
                    /\ r.events = <<t>>
                    /\ r.st.WalletInfo[w].balance
                           = storage.WalletInfo[w].balance - tx.amount
               ELSE /\ r.ret = FALSE
                    /\ r.events = <<>>
                    /\ SameFunds(r.st)

----------------------------------------------------------------------------
(* C1: quorum safety.  An approval-required transaction is settled only by *)
(* the approval that brings its distinct approvers to required_approvals,  *)
(* every earlier approval returns false and leaves the funds and the spend *)
(* buckets alone, and none is ever settled below the quorum.  This is the  *)
(* claim as stated.                                                        *)
C1_QuorumSafety_AsStated ==
    storage.Initialized
    => /\ ApprovalSettlesAt(Limits.required_approvals)
       /\ CreateKeepsBalance
       /\ SettledWithQuorum

(* C1, amended: the settling approval is the one that brings the distinct  *)
(* approvers to required_approvals, or the first approval when             *)
(* required_approvals is 0; the rest as stated.                            *)
C1_QuorumSafety ==
    storage.Initialized
    => /\ ApprovalSettlesAt(IF Limits.required_approvals = 0 THEN 1
                            ELSE Limits.required_approvals)
       /\ CreateKeepsBalance
       /\ SettledWithQuorum

\* A 2-of-3 transaction has just been settled by its second approval
C1_Witness ==
    /\ last.op = "approve_transaction"
    /\ last.ret[2] = TRUE
    /\ Limits.required_approvals = 2
    /\ storage.Transaction[last.args.tx_id].requires_approval
    /\ Len(storage.Transaction[last.args.tx_id].approvals) = 2
    /\ ExecutedCount(last.args.tx_id) = 1

----------------------------------------------------------------------------
(* C2: after the approve_transaction call that returns true, the           *)
(* transaction read back with get_transaction is Executed with executed_at *)
(* the time of the call, its approvals hold the approving guardian, and    *)
(* the source wallet's balance and reserved_balance are both reduced by    *)
(* the amount.                                                             *)
C2_QuorumCallExecutes ==
    [][(storage' # storage /\ last'.op = "approve_transaction" /\ last'.ret[2] = TRUE)
       => LET t == last'.args.tx_id
              before == storage.Transaction[t]
              w == before.from_wallet
              read == get_transaction(storage', t)
          IN  /\ is_some(read)
              /\ unwrap(read).status = "Executed"
              /\ unwrap(read).executed_at = Some(timestamp)
              /\ contains(unwrap(read).approvals, last'.args.guardian)
              /\ storage'.WalletInfo[w].balance
                     = storage.WalletInfo[w].balance - before.amount
              /\ storage'.WalletInfo[w].reserved_balance
                     = storage.WalletInfo[w].reserved_balance - before.amount
      ]_vars

----------------------------------------------------------------------------
(* C3: for every wallet, 0 <= reserved_balance <= balance in every state   *)
(* reached from a funded wallet with nothing reserved.                     *)
C3_ReservedWithinBalance ==
    \A w \in Wallets :
        /\ 0 <= storage.WalletInfo[w].reserved_balance
        /\ storage.WalletInfo[w].reserved_balance <= storage.WalletInfo[w].balance

----------------------------------------------------------------------------
(* C4: once an emergency_shutdown call has succeeded, every later          *)
(* create_transaction call and every later authenticated                   *)
(* approve_transaction call fails with EmergencyActive, whatever its other *)
(* arguments are.                                                          *)
EmergencyGated ==
    /\ \A w \in Sources, a \in AnyAmount : Create(w, a).err = "EmergencyActive"
    /\ \A g \in Callers, t \in AnyTxId : Approve(g, t).err = "EmergencyActive"

C4_EmergencyGating ==
    /\ []((last.op = "emergency_shutdown" \/ is_emergency_mode(storage))
          => (is_emergency_mode(storage) /\ EmergencyGated))
    /\ [][is_emergency_mode(storage) => is_emergency_mode(storage')]_vars

\* After a shutdown and a later tick, with a transaction one approval short
\* of its quorum and a funded wallet: calls that would otherwise succeed
C4_Witness ==
    /\ is_emergency_mode(storage)
    /\ last.op = "tick"
    /\ \E t \in Txs :
          /\ storage.Transaction[t].status = "AwaitingApproval"
          /\ Len(storage.Transaction[t].approvals) + 1 = Limits.required_approvals
    /\ \E w \in Wallets : storage.WalletInfo[w].balance > 0

----------------------------------------------------------------------------
(* C5: the accumulated spend of every day bucket never exceeds daily_limit *)
(* and that of every month bucket never exceeds monthly_limit.             *)
C5_SpendWithinLimits ==
    storage.Initialized
    => /\ \A d \in DOMAIN storage.DailySpent :
              storage.DailySpent[d] <= Limits.daily_limit
       /\ \A m \in DOMAIN storage.MonthlySpent :
              storage.MonthlySpent[m] <= Limits.monthly_limit

----------------------------------------------------------------------------
(* C6: on the approval-required path with sufficient balance, a create     *)
(* succeeds when the day bucket plus the amount equals daily_limit (the    *)
(* month bucket allowing it) and fails with LimitExceeded at daily_limit   *)
(* + 1; the same boundary holds for the month bucket and monthly_limit.    *)
OnApprovalPath(w, a) ==
    /\ storage.Initialized
    /\ ~is_emergency_mode(storage)
    /\ w \in Wallets
    /\ a > 0
    /\ storage.WalletInfo[w].balance >= a
    /\ (a > Limits.high_value_threshold \/ storage.WalletInfo[w].wallet_type = "Cold")

C6_LimitBoundary ==
    \A w \in Sources, a \in AnyAmount :
        OnApprovalPath(w, a)
        => /\ (/\ SpentToday + a = Limits.daily_limit
               /\ SpentThisMonth + a <= Limits.monthly_limit)
              => Create(w, a).err = "none"
           /\ (SpentToday + a = Limits.daily_limit + 1)
              => Create(w, a).err = "LimitExceeded"
           /\ (/\ SpentThisMonth + a = Limits.monthly_limit
               /\ SpentToday + a <= Limits.daily_limit)
              => Create(w, a).err = "none"
           /\ (SpentThisMonth + a = Limits.monthly_limit + 1)
              => Create(w, a).err = "LimitExceeded"

\* A create has just succeeded exactly at daily_limit on a day with spend,
\* and a create one unit over is on offer
C6_Witness ==
    /\ last.op = "create_transaction"
    /\ storage.Transaction[last.ret[2]].requires_approval
    /\ SpentToday > 0
    /\ SpentToday + storage.Transaction[last.ret[2]].amount = Limits.daily_limit
    /\ \E w \in Sources, a \in AnyAmount :
          /\ OnApprovalPath(w, a)
          /\ SpentToday + a = Limits.daily_limit + 1

\* The month bucket decides: a create at monthly_limit and one a unit over
\* are on offer on a day whose own bucket allows both
C6_MonthCases ==
    /\ \E w \in Sources, a \in AnyAmount :
          /\ OnApprovalPath(w, a)
          /\ SpentThisMonth + a = Limits.monthly_limit + 1
          /\ SpentToday + a <= Limits.daily_limit
    /\ \E w \in Sources, a \in AnyAmount :
          /\ OnApprovalPath(w, a)
          /\ SpentThisMonth + a = Limits.monthly_limit
          /\ SpentToday + a <= Limits.daily_limit
          /\ SpentThisMonth > SpentToday

----------------------------------------------------------------------------
(* C7: a second approve_transaction by a guardian already in the approvals *)
(* of t fails with DuplicateApproval whatever the status of t, and changes *)
(* nothing; no approvals hold the same guardian twice.  This is the claim  *)
(* as stated.                                                              *)
NoGuardianTwice ==
    \A t \in Txs :
        Cardinality(ToSet(storage.Transaction[t].approvals))
            = Len(storage.Transaction[t].approvals)

C7_DuplicateApproval_AsStated ==
    /\ \A g \in Callers, t \in Txs :
          contains(storage.Transaction[t].approvals, g)
          => /\ Approve(g, t).err = "DuplicateApproval"
             /\ Approve(g, t).st = storage
    /\ NoGuardianTwice

(* C7, amended: the second approval fails with DuplicateApproval unless    *)
(* emergency mode is active, when it fails with EmergencyActive; the rest  *)
(* as stated.                                                              *)
C7_DuplicateApproval ==
    /\ \A g \in Callers, t \in Txs :
          contains(storage.Transaction[t].approvals, g)
          => /\ Approve(g, t).err = IF is_emergency_mode(storage)
                                    THEN "EmergencyActive"
                                    ELSE "DuplicateApproval"
             /\ Approve(g, t).st = storage
    /\ NoGuardianTwice

\* With no emergency, one transaction past its quorum and one still
\* awaiting approval, each with a guardian who has approved it
C7_Witness ==
    /\ ~is_emergency_mode(storage)
    /\ last.op = "approve_transaction"
    /\ \E t \in Txs :
          /\ storage.Transaction[t].status = "AwaitingApproval"
          /\ storage.Transaction[t].approvals # <<>>
    /\ \E t \in Txs :
          /\ storage.Transaction[t].status # "AwaitingApproval"
          /\ storage.Transaction[t].approvals # <<>>

----------------------------------------------------------------------------
(* C8: every rejected call of initialize, create_transaction,              *)
(* approve_transaction or emergency_shutdown leaves the persisted state    *)
(* unchanged: the storage a handler has when it panics is the storage it   *)
(* was entered with, no write precedes a rejecting check.                  *)
Unwritten(r) == r.err # "none" => (r.st = storage /\ r.events = <<>>)

C8_RejectedCallsWriteNothing ==
    /\ \A in \in InitInputs :
          Unwritten(initialize(storage, in.guardians, in.hot_wallet,
                               in.cold_wallet, in.system_limits))
    /\ \A w \in Sources, a \in AnyAmount : Unwritten(Create(w, a))
    /\ \A auth \in BOOLEAN, g \in Callers, t \in AnyTxId :
          Unwritten(approve_transaction(storage, auth, g, t, timestamp))
    /\ \A auth \in BOOLEAN, g \in Callers :
          Unwritten(emergency_shutdown(storage, auth, g))

\* A state with transactions stored where each operation has a call that
\* is rejected by the last of its checks
C8_Witness ==
    /\ Txs # {}
    /\ \E w \in Sources, a \in AnyAmount : Create(w, a).err = "LimitExceeded"
    /\ \E g \in Callers, t \in AnyTxId : Approve(g, t).err = "InvalidTransactionState"
    /\ \E g \in Callers : emergency_shutdown(storage, TRUE, g).err = "GuardianInactive"
    /\ \E in \in InitInputs :
          initialize(storage, in.guardians, in.hot_wallet, in.cold_wallet,
                     in.system_limits).err = "AlreadyInitialized"

----------------------------------------------------------------------------
(* C9: a transaction is executed at most once: its amount leaves the       *)
(* source wallet's balance and reserved_balance once and enters one day    *)
(* bucket and one month bucket once, and once it is executed no            *)
(* approve_transaction on it, by any guardian, succeeds or changes funds.  *)
Settled == [t \in Txs |-> storage.Transaction[t].amount * ExecutedCount(t)]
Unsettled == [t \in Txs |-> storage.Transaction[t].amount * (1 - ExecutedCount(t))]
From(w) == {t \in Txs : storage.Transaction[t].from_wallet = w}

C9_ExecutedAtMostOnce ==
    /\ \A t \in DOMAIN executedLog : t \in Txs /\ executedLog[t] <= 1
    /\ \A t \in Txs :
          (storage.Transaction[t].status = "AwaitingApproval") <=> (ExecutedCount(t) = 0)
    /\ \A w \in Wallets :
          /\ storage.WalletInfo[w].balance + SumOver(Settled, From(w)) \in {0, MaxBalance}
          /\ storage.WalletInfo[w].reserved_balance = SumOver(Unsettled, From(w))
    /\ SumOver(storage.DailySpent, DOMAIN storage.DailySpent) = SumOver(Settled, Txs)
    /\ SumOver(storage.MonthlySpent, DOMAIN storage.MonthlySpent) = SumOver(Settled, Txs)
    /\ \A g \in Callers, t \in Txs :
          ExecutedCount(t) > 0
          => (Approve(g, t).err # "none" /\ Approve(g, t).st = storage)

\* One transaction executed by create and one by its quorum, the latter
\* with an active guardian who has not approved it
C9_Witness ==
    /\ \E t \in Txs :
          /\ ~storage.Transaction[t].requires_approval
          /\ ExecutedCount(t) = 1
    /\ \E t \in Txs :
          /\ storage.Transaction[t].requires_approval
          /\ ExecutedCount(t) = 1
          /\ ActiveGuardians \ ToSet(storage.Transaction[t].approvals) # {}

----------------------------------------------------------------------------
(* C10: after every successful initialize exactly 3 guardians are          *)
(* registered, each supplied guardian retrievable, and exactly 2 wallets   *)
(* exist, one Hot and one Cold, each with balance 0 and reserved_balance   *)
(* 0, also when supplied addresses coincide.                               *)
C10_InitializeRegistersAll ==
    last.op = "initialize"
    => /\ Cardinality(Registered) = GuardianSlots
       /\ \A i \in 1..Len(last.args.guardians) :
             is_some(get_guardian(storage, last.args.guardians[i].address))
       /\ Cardinality(Wallets) = 2
       /\ Cardinality({w \in Wallets : storage.WalletInfo[w].wallet_type = "Hot"}) = 1
       /\ Cardinality({w \in Wallets : storage.WalletInfo[w].wallet_type = "Cold"}) = 1
       /\ \A w \in Wallets :
             /\ storage.WalletInfo[w].balance = 0
             /\ storage.WalletInfo[w].reserved_balance = 0

----------------------------------------------------------------------------
(* C11: initialize succeeds at most once.  Once the contract is            *)
(* initialized every initialize call fails with AlreadyInitialized,        *)
(* whatever its arguments (those that would be InvalidConfiguration        *)
(* included), and leaves guardians, wallets, limits, counter and emergency *)
(* flag unchanged.  Before that, an initialize with a guardian count other *)
(* than 3 or with percentages not summing to 100 fails with                *)
(* InvalidConfiguration and the contract stays uninitialized:              *)
(* create_transaction, approve_transaction and emergency_shutdown fail     *)
(* with NotInitialized.                                                    *)
TooMany == AllActive \o <<Guardian("g3", TRUE)>>

AnyInit ==
    InitInputs
    \cup {[guardians |-> g, hot_wallet |-> "w1", cold_wallet |-> "w2",
           system_limits |-> l] :
             g \in {TooFew, TooMany, <<>>},
             l \in {BaseLimits, [BaseLimits EXCEPT !.hot_wallet_percentage = 10],
                    [BaseLimits EXCEPT !.cold_wallet_percentage = 0]}}

InvalidConfiguration(in) ==
    \/ Len(in.guardians) # 3
    \/ in.system_limits.hot_wallet_percentage
         + in.system_limits.cold_wallet_percentage # 100

Init_(in) ==
    initialize(storage, in.guardians, in.hot_wallet, in.cold_wallet, in.system_limits)

NotInitializedEverywhere(st) ==
    /\ \A w \in Sources, a \in AnyAmount, t \in Times :
          create_transaction(st, w, Stranger, a, t).err = "NotInitialized"
    /\ \A g \in Callers, id \in AnyTxId, t \in Times :
          approve_transaction(st, TRUE, g, id, t).err = "NotInitialized"
    /\ \A g \in Callers : emergency_shutdown(st, TRUE, g).err = "NotInitialized"

C11_InitializeOnce ==
    /\ storage.Initialized
       => \A in \in AnyInit :
             /\ Init_(in).err = "AlreadyInitialized"
             /\ Init_(in).st = storage
    /\ ~storage.Initialized
       => \A in \in AnyInit :
             InvalidConfiguration(in)
             => /\ Init_(in).err = "InvalidConfiguration"
                /\ Init_(in).st = storage
                /\ ~Init_(in).st.Initialized
                /\ NotInitializedEverywhere(Init_(in).st)
    /\ last.op = "initialize" => storage.Initialized

\* An initialized contract with a transaction stored and the emergency flag
\* set, on which initialize is called again
C11_Witness ==
    /\ storage.Initialized
    /\ get_transaction_counter(storage) > 0
    /\ is_emergency_mode(storage)
    /\ \E in \in AnyInit : InvalidConfiguration(in) /\ Init_(in).err = "AlreadyInitialized"
    /\ \E in \in AnyInit : ~InvalidConfiguration(in) /\ Init_(in).err = "AlreadyInitialized"

----------------------------------------------------------------------------
(* C12: transaction ids are consecutive from 1.  The counter is 0 right    *)
(* after initialize; each successful create_transaction returns the        *)
(* counter plus one and stores it as the counter, auto-executed            *)
(* transactions included, so the n-th returns n; a rejected create leaves  *)
(* the counter alone and so does every other operation; get_transaction(i) *)
(* is a record with id = i exactly for 1 <= i <= counter; and a stored     *)
(* transaction's from_wallet, to_address, amount and requires_approval     *)
(* never change.                                                           *)
IdsConsecutive ==
    /\ last.op = "initialize" => get_transaction_counter(storage) = 0
    /\ last.op = "create_transaction" => last.ret[2] = get_transaction_counter(storage)
    /\ \A i \in 0..(MaxTx + 1) :
          /\ is_some(get_transaction(storage, i))
                 <=> (1 <= i /\ i <= get_transaction_counter(storage))
          /\ is_some(get_transaction(storage, i))
                 => unwrap(get_transaction(storage, i)).id = i
    /\ \A w \in Sources, a \in AnyAmount :
          IF Create(w, a).err = "none"
          THEN /\ Create(w, a).ret = get_transaction_counter(storage) + 1
               /\ get_transaction_counter(Create(w, a).st) = Create(w, a).ret
          ELSE get_transaction_counter(Create(w, a).st)
                   = get_transaction_counter(storage)

CounterStep ==
    /\ get_transaction_counter(storage') # get_transaction_counter(storage)
       => /\ last'.op = "create_transaction"
          /\ get_transaction_counter(storage') = get_transaction_counter(storage) + 1
          /\ last'.ret[2] = get_transaction_counter(storage')
    /\ \A t \in Txs :
          /\ t \in DOMAIN storage'.Transaction
          /\ storage'.Transaction[t].id = storage.Transaction[t].id
          /\ storage'.Transaction[t].from_wallet = storage.Transaction[t].from_wallet
          /\ storage'.Transaction[t].to_address = storage.Transaction[t].to_address
          /\ storage'.Transaction[t].amount = storage.Transaction[t].amount
          /\ storage'.Transaction[t].requires_approval
                 = storage.Transaction[t].requires_approval

C12_ConsecutiveIds == []IdsConsecutive /\ [][CounterStep]_vars

\* The second create has just returned 2, one of the two transactions was
\* executed by its create and the other awaits approval, and a create that
\* would be rejected is on offer
C12_Witness ==
    /\ last.op = "create_transaction"
    /\ last.ret[2] = 2
    /\ \E t \in Txs : ~storage.Transaction[t].requires_approval
    /\ \E t \in Txs : storage.Transaction[t].status = "AwaitingApproval"
    /\ \E w \in Sources, a \in AnyAmount : Create(w, a).err = "InsufficientFunds"

----------------------------------------------------------------------------
(* C13: emergency mode is irreversible.  is_emergency_mode is false after  *)
(* initialize, becomes true only through a successful emergency_shutdown,  *)
(* and once true stays true in every later state, whatever is called.      *)
EmergencyStep ==
    /\ is_emergency_mode(storage) => is_emergency_mode(storage')
    /\ (~is_emergency_mode(storage) /\ is_emergency_mode(storage'))
       => last'.op = "emergency_shutdown"

C13_EmergencyIrreversible ==
    /\ [](last.op \in {"none", "initialize"} => ~is_emergency_mode(storage))
    /\ [][EmergencyStep]_vars

\* Emergency mode is active on the day after, with a further successful
\* emergency_shutdown on offer and transactions stored
C13_Witness ==
    /\ is_emergency_mode(storage)
    /\ timestamp > 0
    /\ Txs # {}
    /\ \E g \in Callers :
          /\ Some(g) # storage.EmergencyInitiator
          /\ emergency_shutdown(storage, TRUE, g).err = "none"

----------------------------------------------------------------------------
(* C14: approval routing of create_transaction.  A successful create       *)
(* yields requires_approval = true exactly when amount >                   *)
(* high_value_threshold or the source wallet is Cold.  When it is false    *)
(* the transaction is Executed with executed_at set when create returns,   *)
(* the wallet's balance is reduced by the amount and its reserved_balance  *)
(* is as before the call; when it is true the transaction is               *)
(* AwaitingApproval with empty approvals, the balance is unchanged and     *)
(* reserved_balance is increased by the amount.                            *)
C14_ApprovalRouting ==
    \A w \in Sources, a \in AnyAmount :
        Create(w, a).err = "none"
        => LET st == Create(w, a).st
               tx == unwrap(get_transaction(st, Create(w, a).ret))
               before == storage.WalletInfo[w]
               after == st.WalletInfo[w]
           IN  /\ tx.requires_approval
                     <=> (a > Limits.high_value_threshold \/ before.wallet_type = "Cold")
               /\ ~tx.requires_approval
                     => /\ tx.status = "Executed"
                        /\ tx.executed_at = Some(timestamp)
                        /\ after.balance = before.balance - a
                        /\ after.reserved_balance = before.reserved_balance
               /\ tx.requires_approval
                     => /\ tx.status = "AwaitingApproval"
                        /\ tx.approvals = <<>>
                        /\ tx.executed_at = None
                        /\ after.balance = before.balance
                        /\ after.reserved_balance = before.reserved_balance + a

\* A transaction of exactly high_value_threshold from the Hot wallet is
\* stored as Executed and one of the same amount from the Cold wallet as
\* AwaitingApproval, the second just created with funds already reserved
C14_Witness ==
    /\ last.op = "create_transaction"
    /\ \E t \in Txs :
          /\ storage.Transaction[t].amount = Limits.high_value_threshold
          /\ storage.WalletInfo[storage.Transaction[t].from_wallet].wallet_type = "Hot"
          /\ storage.Transaction[t].status = "Executed"
    /\ \E t \in Txs :
          /\ storage.Transaction[t].amount = Limits.high_value_threshold
          /\ storage.WalletInfo[storage.Transaction[t].from_wallet].wallet_type = "Cold"
          /\ storage.Transaction[t].status = "AwaitingApproval"
    /\ \E w \in Sources, a \in AnyAmount :
          /\ Create(w, a).err = "none"
          /\ storage.WalletInfo[w].reserved_balance > 0

----------------------------------------------------------------------------
(* C15: limits are evaluated only on the approval-required path.  A        *)
(* create_transaction from the Hot wallet with 0 < amount <=               *)
(* high_value_threshold and balance >= amount never fails with             *)
(* LimitExceeded, whatever the day and month bucket totals are, and it     *)
(* adds its amount to the current day bucket and month bucket when it      *)
(* executes.                                                               *)
BelowThresholdFromHot(w, a) ==
    /\ storage.Initialized
    /\ w \in Wallets
    /\ storage.WalletInfo[w].wallet_type = "Hot"
    /\ 0 < a
    /\ a <= Limits.high_value_threshold
    /\ storage.WalletInfo[w].balance >= a

C15_NoLimitsBelowThreshold ==
    \A w \in Sources, a \in AnyAmount :
        BelowThresholdFromHot(w, a)
        => /\ Create(w, a).err # "LimitExceeded"
           /\ ~is_emergency_mode(storage) => Create(w, a).err = "none"
           /\ Create(w, a).err = "none"
              => /\ Create(w, a).events = <<Create(w, a).ret>>
                 /\ MapGet(Create(w, a).st.DailySpent, Today) = Some(SpentToday + a)
                 /\ MapGet(Create(w, a).st.MonthlySpent, ThisMonth)
                        = Some(SpentThisMonth + a)

\* A create below the threshold from the Hot wallet has just executed on a
\* day whose bucket was already at daily_limit, and took it over the limit
C15_Witness ==
    /\ last.op = "create_transaction"
    /\ ~storage.Transaction[last.ret[2]].requires_approval
    /\ storage.Transaction[last.ret[2]].status = "Executed"
    /\ SpentToday - storage.Transaction[last.ret[2]].amount = Limits.daily_limit

\* The same on a day with no spend in a month already at monthly_limit
C15_MonthCase ==
    /\ last.op = "create_transaction"
    /\ ~storage.Transaction[last.ret[2]].requires_approval
    /\ SpentToday = storage.Transaction[last.ret[2]].amount
    /\ SpentThisMonth - storage.Transaction[last.ret[2]].amount = Limits.monthly_limit

----------------------------------------------------------------------------
(* C16: rejections of approve_transaction, for an authenticated caller     *)
(* with no emergency active, follow this precedence: an address that is    *)
(* not a registered guardian fails with NotAGuardian; a registered         *)
(* guardian that is not active fails with GuardianInactive; otherwise an   *)
(* unknown transaction id fails with TransactionNotFound; otherwise a      *)
(* guardian already in approvals fails with DuplicateApproval; otherwise a *)
(* transaction that is not AwaitingApproval fails with                     *)
(* InvalidTransactionState; a call meeting none of these succeeds.  This   *)
(* is the claim as stated.                                                 *)
ApprovalOutcome(g, t) ==
    IF g \notin Registered THEN "NotAGuardian"
    ELSE IF g \notin ActiveGuardians THEN "GuardianInactive"
    ELSE IF t \notin Txs THEN "TransactionNotFound"
    ELSE IF g \in ToSet(storage.Transaction[t].approvals) THEN "DuplicateApproval"
    ELSE IF storage.Transaction[t].status # "AwaitingApproval"
         THEN "InvalidTransactionState"
    ELSE "none"

C16_ApprovalPrecedence_AsStated ==
    ~is_emergency_mode(storage)
    => \A g \in Callers, t \in AnyTxId : Approve(g, t).err = ApprovalOutcome(g, t)

(* C16, amended: the same precedence on an initialized contract; before    *)
(* initialize every such call fails with NotInitialized.                   *)
C16_ApprovalPrecedence ==
    ~is_emergency_mode(storage)
    => \A g \in Callers, t \in AnyTxId :
          Approve(g, t).err = IF storage.Initialized THEN ApprovalOutcome(g, t)
                              ELSE "NotInitialized"

\* No emergency, and each of the five rejections and a success on offer
C16_Witness ==
    /\ storage.Initialized
    /\ ~is_emergency_mode(storage)
    /\ \A e \in {"NotAGuardian", "GuardianInactive", "TransactionNotFound",
                  "DuplicateApproval", "InvalidTransactionState", "none"} :
          \E g \in Callers, t \in AnyTxId : Approve(g, t).err = e

\* A guardian in the approvals of a transaction that is no longer awaiting:
\* both of the last two conditions hold and the duplicate is reported
C16_DuplicateBeforeStatus ==
    /\ ~is_emergency_mode(storage)
    /\ \E g \in Callers, t \in Txs :
          /\ Approve(g, t).err = "DuplicateApproval"
          /\ storage.Transaction[t].status # "AwaitingApproval"

----------------------------------------------------------------------------
(* C17: the emergency initiator is set once.  emergency_shutdown succeeds  *)
(* only for a registered guardian that is active (NotAGuardian or          *)
(* GuardianInactive otherwise, the flag unchanged); the recorded initiator *)
(* is the guardian whose call first set the emergency flag, and no later   *)
(* call, an emergency_shutdown by another guardian while emergency mode is *)
(* already active included, changes the recorded initiator.                *)
ShutdownOutcome(g) ==
    IF g \notin Registered THEN "NotAGuardian"
    ELSE IF g \notin ActiveGuardians THEN "GuardianInactive"
    ELSE "none"

ShutdownByActiveGuardian ==
    storage.Initialized
    => \A g \in Callers :
          /\ emergency_shutdown(storage, TRUE, g).err = ShutdownOutcome(g)
          /\ ShutdownOutcome(g) # "none"
             => is_emergency_mode(emergency_shutdown(storage, TRUE, g).st)
                    = is_emergency_mode(storage)

InitiatorStep ==
    /\ (~is_emergency_mode(storage) /\ is_emergency_mode(storage'))
       => /\ last'.op = "emergency_shutdown"
          /\ storage'.EmergencyInitiator = Some(last'.args.guardian)
    /\ is_emergency_mode(storage)
       => storage'.EmergencyInitiator = storage.EmergencyInitiator

C17_InitiatorSetOnce == []ShutdownByActiveGuardian /\ [][InitiatorStep]_vars

----------------------------------------------------------------------------
(* C18: guardian statistics track approvals exactly.  Each successful      *)
(* approve_transaction increases the approving guardian's approval_count   *)
(* by 1 and sets its last_approval to the time of the call, on the         *)
(* quorum-reaching and on the non-quorum call alike, and changes no other  *)
(* guardian; no other operation changes a guardian record.  Hence a        *)
(* guardian's approval_count is its value at initialization plus the       *)
(* number of transactions whose approvals contain that guardian.           *)
GuardianRecords(st) == unwrap(st.Guardians)

ApprovedBy(g) == {t \in Txs : contains(storage.Transaction[t].approvals, g)}

StatsFollowApprovals ==
    storage.Initialized
    => /\ \A g \in Registered :
             GuardianRecords(storage)[g].approval_count
                 = Guardian(g, TRUE).approval_count + Cardinality(ApprovedBy(g))
       /\ \A g \in Callers, t \in AnyTxId :
             Approve(g, t).err = "none"
             => GuardianRecords(Approve(g, t).st)
                   = [GuardianRecords(storage) EXCEPT
                         ![g].approval_count = @ + 1,
                         ![g].last_approval = timestamp]

StatsStep ==
    (storage.Initialized /\ storage'.Guardians # storage.Guardians)
    => /\ last'.op = "approve_transaction"
       /\ GuardianRecords(storage')
              = [GuardianRecords(storage) EXCEPT
                    ![last'.args.guardian].approval_count = @ + 1,
                    ![last'.args.guardian].last_approval = timestamp]

C18_GuardianStatistics == []StatsFollowApprovals /\ [][StatsStep]_vars

\* On day 1 a guardian has just made the quorum-reaching approval of one
\* transaction after a non-quorum approval of another
C18_Witness ==
    /\ last.op = "approve_transaction"
    /\ last.ret[2] = TRUE
    /\ timestamp > 0
    /\ GuardianRecords(storage)[last.args.guardian].approval_count = 2
    /\ GuardianRecords(storage)[last.args.guardian].last_approval = timestamp
    /\ \E t \in ApprovedBy(last.args.guardian) :
          storage.Transaction[t].status = "AwaitingApproval"

----------------------------------------------------------------------------
(* C19: a pending transaction is changed only by approvals of it.  A       *)
(* transaction in AwaitingApproval keeps its status, approvals and         *)
(* reservation across every create_transaction, every approve_transaction  *)
(* on a different id, every rejected call and every emergency_shutdown.    *)
(* Once emergency mode is active, every transaction that is                *)
(* AwaitingApproval stays AwaitingApproval forever and every wallet's      *)
(* balance and reserved_balance, every spend bucket and the transaction    *)
(* counter never change again.  The claim is about the contract's          *)
(* operations: the funding of a wallet by a write to its storage entry is  *)
(* no call of the contract and is left out of the second part.             *)
Awaiting(st, w) ==
    {t \in DOMAIN st.Transaction :
        /\ st.Transaction[t].from_wallet = w
        /\ st.Transaction[t].status = "AwaitingApproval"}

AmountOf(st) == [t \in DOMAIN st.Transaction |-> st.Transaction[t].amount]

\* t is in st as it is in storage, and its amount is still among what its
\* wallet has reserved
KeepsPending(st, t) ==
    \/ st = storage
    \/ /\ st.Transaction[t] = storage.Transaction[t]
       /\ st.WalletInfo[storage.Transaction[t].from_wallet].reserved_balance
              = SumOver(AmountOf(st), Awaiting(st, storage.Transaction[t].from_wallet))

PendingUntouched ==
    \A t \in Txs :
        storage.Transaction[t].status = "AwaitingApproval"
        => /\ \A w \in Sources, a \in AnyAmount : KeepsPending(Create(w, a).st, t)
           /\ \A auth \in BOOLEAN, g \in Callers, u \in AnyTxId :
                 LET r == approve_transaction(storage, auth, g, u, timestamp)
                 IN  (u # t \/ r.err # "none") => KeepsPending(r.st, t)
           /\ \A auth \in BOOLEAN, g \in Callers :
                 KeepsPending(emergency_shutdown(storage, auth, g).st, t)
           /\ \A in \in InitInputs : KeepsPending(Init_(in).st, t)

PendingStep ==
    /\ \A t \in Txs :
          (/\ storage.Transaction[t].status = "AwaitingApproval"
           /\ storage'.Transaction[t] # storage.Transaction[t])
          => /\ last'.op = "approve_transaction"
             /\ last'.args.tx_id = t
    /\ (is_emergency_mode(storage) /\ last'.op # "fund")
       => /\ storage'.Transaction = storage.Transaction
          /\ storage'.WalletInfo = storage.WalletInfo
          /\ storage'.DailySpent = storage.DailySpent
          /\ storage'.MonthlySpent = storage.MonthlySpent
          /\ storage'.TransactionCounter = storage.TransactionCounter

C19_PendingFrame == []PendingUntouched /\ [][PendingStep]_vars

\* Emergency mode has been active since the day before with a transaction
\* one approval short of its quorum, another transaction stored, and a
\* further emergency_shutdown just made
C19_Witness ==
    /\ is_emergency_mode(storage)
    /\ timestamp > 0
    /\ last.op = "emergency_shutdown"
    /\ Cardinality(Txs) = 2
    /\ \E t \in Txs :
          /\ storage.Transaction[t].status = "AwaitingApproval"
          /\ Len(storage.Transaction[t].approvals) + 1 = Limits.required_approvals
          /\ storage.WalletInfo[storage.Transaction[t].from_wallet].reserved_balance > 0

----------------------------------------------------------------------------
(* C20: reservation accounting.  In every reachable state, for each        *)
(* wallet, reserved_balance equals the sum of the amounts of the           *)
(* transactions from that wallet whose funds have been reserved but not    *)
(* yet settled, that is, of the approval-required transactions that have   *)
(* not reached quorum (fewer than required_approvals approvals); a         *)
(* transaction that needs no approval contributes 0 once create returns.   *)
(* This is the claim as stated.                                            *)
BelowQuorum(w) ==
    {t \in Txs :
        /\ storage.Transaction[t].from_wallet = w
        /\ storage.Transaction[t].requires_approval
        /\ Len(storage.Transaction[t].approvals) < Limits.required_approvals}

C20_ReservationAccounting_AsStated ==
    \A w \in Wallets :
        storage.WalletInfo[w].reserved_balance
            = SumOver(AmountOf(storage), BelowQuorum(w))

(* C20, amended: reserved_balance is the sum of the amounts of the         *)
(* approval-required transactions from the wallet that no approval has     *)
(* settled yet, those still AwaitingApproval; when required_approvals is   *)
(* at least 1 these are the ones with fewer than required_approvals        *)
(* approvals.  A transaction that needs no approval is never among them.   *)
C20_ReservationAccounting ==
    \A w \in Wallets :
        /\ storage.WalletInfo[w].reserved_balance
               = SumOver(AmountOf(storage), Awaiting(storage, w))
        /\ \A t \in Awaiting(storage, w) : storage.Transaction[t].requires_approval
        /\ Limits.required_approvals >= 1 => Awaiting(storage, w) = BelowQuorum(w)

\* A wallet whose transaction has just been settled by its quorum still
\* has another of its transactions reserved
C20_Witness ==
    /\ last.op = "approve_transaction"
    /\ last.ret[2] = TRUE
    /\ Limits.required_approvals = 2
    /\ \E w \in Wallets :
          /\ storage.Transaction[last.args.tx_id].from_wallet = w
          /\ Awaiting(storage, w) # {}
          /\ storage.WalletInfo[w].reserved_balance > 0

\* A transaction that needed no approval has been created from a wallet
\* that has another transaction reserved
C20_NoApprovalCase ==
    /\ last.op = "create_transaction"
    /\ ~storage.Transaction[last.ret[2]].requires_approval
    /\ Awaiting(storage, storage.Transaction[last.ret[2]].from_wallet) # {}

----------------------------------------------------------------------------
(* C21: no overdraft.  Starting from a wallet with balance >= 0 and        *)
(* reserved_balance = 0, no sequence of create_transaction and             *)
(* approve_transaction calls drives a wallet's balance below 0: the total  *)
(* settled from a wallet never exceeds the balance it was funded with,     *)
(* also when several approval-required transactions from it are created    *)
(* before any of them reaches quorum.                                      *)
C21_NoOverdraft ==
    \A w \in Wallets :
        /\ storage.WalletInfo[w].balance >= 0
        /\ SumOver(Settled, From(w)) <= MaxBalance

----------------------------------------------------------------------------
(* The contract without emergency_shutdown, under fair guardians: an       *)
(* active guardian who can approve a transaction eventually does.          *)

\* The configurations offered: 2-of-3 with three active guardians, and
\* 2-of-3 and 3-of-3 with one of the three inactive
LiveInputs ==
    {[guardians |-> AllActive, hot_wallet |-> "w1", cold_wallet |-> "w2",
      system_limits |-> BaseLimits]}
    \cup {[guardians |-> OneInactive, hot_wallet |-> "w1", cold_wallet |-> "w2",
           system_limits |-> [BaseLimits EXCEPT !.required_approvals = r]] :
             r \in 2..GuardianSlots}

LiveInitialize ==
    \E in \in LiveInputs :
        LET r == initialize(storage, in.guardians, in.hot_wallet, in.cold_wallet,
                            in.system_limits)
        IN  /\ Commit(r)
            /\ Called("initialize", in, r)
            /\ UNCHANGED timestamp

\* The approve_transaction call of guardian g on transaction t that succeeds
ApproveBy(g, t) ==
    LET r == approve_transaction(storage, TRUE, g, t, timestamp)
    IN  /\ r.err = "none"
        /\ Commit(r)
        /\ Called("approve_transaction", [auth |-> TRUE, guardian |-> g, tx_id |-> t], r)
        /\ UNCHANGED timestamp

LiveNext ==
    \/ LiveInitialize
    \/ FundWallet
    \/ CreateTransaction
    \/ ApproveTransaction
    \/ Tick

GuardiansFair ==
    \A g \in GuardianAddrs, t \in TxIds : WF_vars(ApproveBy(g, t))

LiveSpec == Init /\ [][LiveNext]_vars /\ GuardiansFair

----------------------------------------------------------------------------
(* C22: progress to execution.  If emergency mode is never activated and   *)
(* required_approvals is between 1 and the number of active guardians,     *)
(* then under fairness of guardian approvals every transaction created as  *)
(* AwaitingApproval eventually has its funds settled; and an               *)
(* approve_transaction call that passes the guardian, transaction,         *)
(* duplicate and status checks never fails, because execution re-checks    *)
(* neither the wallet balance nor the spending limits.                     *)
QuorumAvailable ==
    /\ 1 <= Limits.required_approvals
    /\ Limits.required_approvals <= Cardinality(ActiveGuardians)

PassedChecksNeverFail ==
    (storage.Initialized /\ ~is_emergency_mode(storage))
    => \A g \in Callers, t \in AnyTxId :
          ApprovalOutcome(g, t) = "none" => Approve(g, t).err = "none"

C22_ProgressToExecution ==
    /\ []PassedChecksNeverFail
    /\ \A t \in TxIds :
          (/\ t \in Txs
           /\ storage.Transaction[t].status = "AwaitingApproval"
           /\ QuorumAvailable)
          ~> (ExecutedCount(t) = 1)

\* A transaction has just been settled by its quorum although its wallet
\* no longer held its amount and the day bucket was already over the limit
C22_Witness ==
    /\ last.op = "approve_transaction"
    /\ last.ret[2] = TRUE
    /\ ExecutedCount(last.args.tx_id) = 1
    /\ storage.WalletInfo[storage.Transaction[last.args.tx_id].from_wallet].balance < 0
    /\ SpentToday > Limits.daily_limit

====
